---- MODULE Spec2Model ----
(***************************************************************************)
(* Model of src/rustc.rs of xargo: target resolution (Target::new), the    *)
(* target hash (Target::hash), and the lookup of the Rust source tree      *)
(* under the sysroot (Sysroot::src), together with the environment they    *)
(* read: the filesystem, RUST_TARGET_PATH and the output of rustc.         *)
(*                                                                         *)
(* A string is a sequence of tokens (characters, or a run of characters    *)
(* that no operation splits).  A path is the sequence of its components    *)
(* below "/", each component a string.  An Option is a sequence of length  *)
(* 0 (None) or 1 (Some).                                                   *)
(***************************************************************************)
EXTENDS Integers, Sequences, FiniteSets, TLC

VARIABLES
    fs,        \* the filesystem: path -> [kind, text]
    env,       \* RUST_TARGET_PATH: Option of a string
    rustcOut,  \* what the installed rustc does when run: [ok, targets, sysroot]
    op,        \* the operation that has just returned ("env", "idle", or its name)
    triple,    \* the `triple` argument of the last Target::new
    target,    \* the value the last Target::new returned
    sysrootV,  \* the Sysroot the last rustc::sysroot returned (Option)
    srcV,      \* the value the last Sysroot::src returned
    self,      \* the Target the last Target::hash was called on (Option)
    before,    \* the hasher's state when the last Target::hash was called
    hasher,    \* the hasher's state when it returned
    readV,     \* what the last Target::hash read from the spec file (Option)
    hashV,     \* the value the last Target::hash returned
    prev       \* the record of the Target::hash call before the last one (Option)

vars == <<fs, env, rustcOut, op, triple, target, sysrootV, srcV,
          self, before, hasher, readV, hashV, prev>>

None == <<>>
Some(x) == <<x>>

Last(s) == s[Len(s)]
Front(s) == SubSeq(s, 1, Len(s) - 1)

----------------------------------------------------------------------------
(* Bounds of the model *)

\* at most this many entries are created in the filesystem
MaxEntries == 2
\* rustc prints at most this many lines of targets
MaxTargets == 1

\* the requested triples: empty, plain, dotted, and the parent-directory name
Triples == { <<>>, <<"a">>, <<"b">>, <<"a", ".", "b">>, <<".", ".">> }

\* the project root (cargo::Root::path) and the directory RUST_TARGET_PATH names
RootPath == << <<"p">> >>
SearchDir == << <<"d">> >>

----------------------------------------------------------------------------
(* std::path *)

\* Path::components: "." and empty components (a trailing separator) are skipped
Components(path) == SelectSeq(path, LAMBDA c : c # <<>> /\ c # <<".">>)

\* PathBuf::push / Path::join of a relative string without separators
Join(path, s) == Append(path, s)

\* PathBuf::from of a string: split at the separators
RECURSIVE SplitPath(_, _)
SplitPath(text, cur) ==
    IF text = <<>> THEN (IF cur = <<>> THEN <<>> ELSE <<cur>>)
    ELSE IF Head(text) = "/"
         THEN (IF cur = <<>> THEN <<>> ELSE <<cur>>) \o SplitPath(Tail(text), <<>>)
         ELSE SplitPath(Tail(text), Append(cur, Head(text)))
PathBufFrom(text) == SplitPath(text, <<>>)

\* Path::display: the components joined by the separator
RECURSIVE Display(_)
Display(path) ==
    IF path = <<>> THEN <<>> ELSE <<"/">> \o Head(path) \o Display(Tail(path))

\* Path::file_name: the last component, if it is a normal one
FileName(path) ==
    LET cs == Components(path) IN
    IF cs = <<>> \/ Last(cs) = <<".", ".">> THEN None ELSE Some(Last(cs))

\* the position of the last "." of a file name, 0 if there is none
LastDot(name) ==
    LET dots == {i \in 1..Len(name) : name[i] = "."} IN
    IF dots = {} THEN 0 ELSE CHOOSE i \in dots : \A j \in dots : j <= i

\* Path::file_stem: the file name up to its last ".", the whole name when it has
\* no "." or only a leading one
FileStem(path) ==
    LET fn == FileName(path) IN
    IF fn = None THEN None
    ELSE IF LastDot(fn[1]) <= 1 THEN fn
    ELSE Some(SubSeq(fn[1], 1, LastDot(fn[1]) - 1))

\* PathBuf::set_extension: no file name, no change; else the file name becomes
\* its stem followed by "." and the extension
SetExtension(path, ext) ==
    LET stem == FileStem(path) IN
    IF stem = None THEN path
    ELSE Append(Front(Components(path)), stem[1] \o <<".">> \o ext)

----------------------------------------------------------------------------
(* The filesystem *)

File(text) == [kind |-> "file", text |-> text]
Dir == [kind |-> "dir", text |-> <<>>]

\* directories that always exist: "/", the project root, the search directory
BaseDirs == { <<>>, RootPath, SearchDir }

IsPrefix(p, q) == Len(p) < Len(q) /\ SubSeq(q, 1, Len(p)) = p

IsDirAt(f, p) ==
    \/ p \in BaseDirs
    \/ p \in DOMAIN f /\ f[p].kind = "dir"
    \/ \E q \in DOMAIN f : IsPrefix(p, q)

\* the operating system's path walk: every step needs a directory to step from
RECURSIVE Walk(_, _, _)
Walk(f, cs, cur) ==
    IF cs = <<>> THEN Some(cur)
    ELSE IF ~IsDirAt(f, cur) THEN None
    ELSE IF Head(cs) \in { <<>>, <<".">> } THEN Walk(f, Tail(cs), cur)
    ELSE IF Head(cs) = <<".", ".">>
         THEN Walk(f, Tail(cs), IF cur = <<>> THEN cur ELSE Front(cur))
    ELSE Walk(f, Tail(cs), Append(cur, Head(cs)))

\* Path::exists: the path names something, a file or a directory
exists(f, path) ==
    LET r == Walk(f, path, <<>>) IN
    r # None /\ (r[1] \in DOMAIN f \/ IsDirAt(f, r[1]))

\* a faulty Path::is_file, which a directory satisfies too
is_file_exists(f, path) == exists(f, path)

\* Path::is_file: the path names a regular file
is_file(f, path) ==
    LET r == Walk(f, path, <<>>) IN
    r # None /\ r[1] \in DOMAIN f /\ f[r[1]].kind = "file"

----------------------------------------------------------------------------
(* rustc *)

Ok(v) == [tag |-> "Ok", val |-> v, msg |-> <<>>]
Err(m) == [tag |-> "Err", val |-> <<>>, msg |-> m]
Idle == [tag |-> "Idle", val |-> <<>>, msg |-> <<>>]

\* CommandExt::run_and_get_stdout: the standard output of a run that succeeded,
\* an error otherwise; `what` is the argument after --print
run_and_get_stdout(rc, what) ==
    IF ~rc.ok THEN Err(<<"rustc failed">>)
    ELSE IF what = "target-list" THEN Ok(rc.targets)
    ELSE Ok(rc.sysroot)

\* str::lines: the text split at the line feeds; a final line feed ends the last
\* line and starts no other
RECURSIVE LinesFrom(_, _)
LinesFrom(text, cur) ==
    IF text = <<>> THEN (IF cur = <<>> THEN <<>> ELSE <<cur>>)
    ELSE IF Head(text) = "\n" THEN <<cur>> \o LinesFrom(Tail(text), <<>>)
    ELSE LinesFrom(Tail(text), Append(cur, Head(text)))
lines(text) == LinesFrom(text, <<>>)

\* rustc::targets
targets(rc) ==
    LET r == run_and_get_stdout(rc, "target-list") IN
    IF r.tag = "Err" THEN r ELSE Ok(lines(r.val))

IsSpace(c) == c \in {" ", "\n"}

\* str::trim
RECURSIVE trim(_)
trim(text) ==
    IF text = <<>> THEN text
    ELSE IF IsSpace(Head(text)) THEN trim(Tail(text))
    ELSE IF IsSpace(Last(text)) THEN trim(Front(text))
    ELSE text

\* rustc::sysroot: the Sysroot, which holds its path
sysroot(rc) ==
    LET r == run_and_get_stdout(rc, "sysroot") IN
    IF r.tag = "Err" THEN r ELSE Ok(PathBufFrom(trim(r.val)))

----------------------------------------------------------------------------
(* Sysroot *)

RustSrc == << <<"lib">>, <<"rustlib">>, <<"src">>, <<"rust">> >>
LegacyManifest == << <<"src">>, <<"libstd">>, <<"Cargo.toml">> >>
ModernManifest == << <<"library">>, <<"std">>, <<"Cargo.toml">> >>

\* the message of the error of Sysroot::src (its quotation marks left out)
NoRustSrc ==
    << "rust-src", " component not found. Run ", "rustup component add rust-src", "." >>

\* a faulty Sysroot::src, which probes the modern layout first
Sysroot_src_ModernFirst(f, path) ==
    IF is_file(f, path \o RustSrc \o ModernManifest)
    THEN Ok(path \o RustSrc \o << <<"library">> >>)
    ELSE IF is_file(f, path \o RustSrc \o LegacyManifest)
    THEN Ok(path \o RustSrc \o << <<"src">> >>)
    ELSE Err(NoRustSrc)

\* Sysroot::src: the Src, which holds its path
Sysroot_src(f, path) ==
    IF is_file(f, path \o RustSrc \o LegacyManifest)
    THEN Ok(path \o RustSrc \o << <<"src">> >>)
    ELSE IF is_file(f, path \o RustSrc \o ModernManifest)
    THEN Ok(path \o RustSrc \o << <<"library">> >>)
    ELSE Err(NoRustSrc)

----------------------------------------------------------------------------
(* Target *)

Builtin(t) == [variant |-> "Builtin", triple |-> t, json |-> <<>>]
Custom(j, t) == [variant |-> "Custom", triple |-> t, json |-> j]

Json == <<"json">>

\* a faulty Target::new, which looks at the project root before the target list
Target_new_RootFirst(t, f, e, rc) ==
    LET ts == targets(rc)
        json == SetExtension(Join(RootPath, t), Json) IN
    IF ts.tag = "Err" THEN ts
    ELSE IF exists(f, json) THEN Ok(Some(Custom(json, t)))
    ELSE IF \E i \in 1..Len(ts.val) : ts.val[i] = t THEN Ok(Some(Builtin(t)))
    ELSE Ok(None)

\* Target::new
Target_new(t, f, e, rc) ==
    LET ts == targets(rc) IN
    IF ts.tag = "Err" THEN ts
    ELSE IF \E i \in 1..Len(ts.val) : ts.val[i] = t THEN Ok(Some(Builtin(t)))
    ELSE LET json == SetExtension(Join(RootPath, t), Json) IN
         IF exists(f, json) THEN Ok(Some(Custom(json, t)))
         ELSE IF e # None
              THEN LET json2 == SetExtension(Join(PathBufFrom(e[1]), t), Json) IN
                   IF exists(f, json2) THEN Ok(Some(Custom(json2, t)))
                   ELSE Ok(None)
              ELSE Ok(None)

----------------------------------------------------------------------------
(* serde_json, as Target::hash uses it *)

JsonKeys == <<"a", "b">>
JsonNumbers == {"1", "2"}
JsonSpace == {" ", "\n"}

Num(n) == [t |-> "num", n |-> n, m |-> <<>>]
Obj(m) == [t |-> "obj", n |-> "", m |-> m]

\* the place of a key in the order of the keys
Rank(k) == CHOOSE i \in 1..Len(JsonKeys) : JsonKeys[i] = k

\* a faulty Map::insert, which keeps the keys in the order of insertion
MapInsert_PreserveOrder(m, k, v) ==
    IF \E i \in 1..Len(m) : m[i].k = k
    THEN [i \in 1..Len(m) |-> IF m[i].k = k THEN [k |-> k, v |-> v] ELSE m[i]]
    ELSE Append(m, [k |-> k, v |-> v])

\* Map::insert of serde_json::Value (a BTreeMap): a key that is present gets the
\* new value, a new key goes to its place in the order of the keys
MapInsert(m, k, v) ==
    IF \E i \in 1..Len(m) : m[i].k = k
    THEN [i \in 1..Len(m) |-> IF m[i].k = k THEN [k |-> k, v |-> v] ELSE m[i]]
    ELSE LET pos == Cardinality({i \in 1..Len(m) : Rank(m[i].k) < Rank(k)}) IN
         SubSeq(m, 1, pos) \o << [k |-> k, v |-> v] >> \o SubSeq(m, pos + 1, Len(m))

ParseFail == [ok |-> FALSE, val |-> Num(""), next |-> 0]

\* the parser of a value at token i, and of the members of an object from the key
\* at token i on
RECURSIVE ParseValue(_, _), ParseMembers(_, _, _)
ParseValue(ts, i) ==
    IF i > Len(ts) THEN ParseFail
    ELSE IF ts[i] \in JsonNumbers THEN [ok |-> TRUE, val |-> Num(ts[i]), next |-> i + 1]
    ELSE IF ts[i] = "{"
         THEN IF i + 1 <= Len(ts) /\ ts[i + 1] = "}"
              THEN [ok |-> TRUE, val |-> Obj(<<>>), next |-> i + 2]
              ELSE ParseMembers(ts, i + 1, <<>>)
    ELSE ParseFail
ParseMembers(ts, i, acc) ==
    IF i + 1 > Len(ts) THEN ParseFail
    ELSE IF ~(\E j \in 1..Len(JsonKeys) : JsonKeys[j] = ts[i]) \/ ts[i + 1] # ":"
         THEN ParseFail
    ELSE LET r == ParseValue(ts, i + 2) IN
         IF ~r.ok \/ r.next > Len(ts) THEN ParseFail
         ELSE IF ts[r.next] = ","
              THEN ParseMembers(ts, r.next + 1, MapInsert(acc, ts[i], r.val))
         ELSE IF ts[r.next] = "}"
              THEN [ok |-> TRUE, val |-> Obj(MapInsert(acc, ts[i], r.val)),
                    next |-> r.next + 1]
         ELSE ParseFail

\* serde_json::from_str::<Value>: white space between the tokens is skipped, the
\* whole text must be one value
from_str(text) ==
    LET ts == SelectSeq(text, LAMBDA c : c \notin JsonSpace)
        r == ParseValue(ts, 1) IN
    IF r.ok /\ r.next = Len(ts) + 1 THEN Ok(r.val) ELSE Err(<<"syntax error">>)

\* Value::to_string: the compact form, the members in the order of the map
RECURSIVE to_string(_), MembersToString(_)
to_string(v) ==
    IF v.t = "num" THEN <<v.n>>
    ELSE <<"{">> \o MembersToString(v.m) \o <<"}">>
MembersToString(m) ==
    IF m = <<>> THEN <<>>
    ELSE <<m[1].k, ":">> \o to_string(m[1].v) \o
         (IF Len(m) > 1 THEN <<",">> ELSE <<>>) \o MembersToString(Tail(m))

\* <str as Hash>::hash: the bytes of the string, then the byte 0xff
str_hash(str, h) == h \o str \o <<"0xff">>

\* util::read: the text of the file, an error when there is no such file
read(f, path) ==
    IF is_file(f, path) THEN Ok(f[Walk(f, path, <<>>)[1]].text)
    ELSE Err(<<"cannot read">>)

HashOut(res, h, rd) == [res |-> res, hasher |-> h, read |-> rd]

\* a faulty Target::hash, which feeds the triple of a Builtin target
Target_hash_FeedsTriple(slf, f, h) ==
    IF slf.variant = "Custom"
    THEN LET r == read(f, slf.json) IN
         IF r.tag = "Err" THEN HashOut(r, h, Some(r))
         ELSE LET v == from_str(r.val) IN
              IF v.tag = "Err"
              THEN HashOut(Err(Display(slf.json) \o <<" is not valid JSON">>), h, Some(r))
              ELSE HashOut(Ok(<<>>), str_hash(to_string(v.val), h), Some(r))
    ELSE HashOut(Ok(<<>>), str_hash(slf.triple, h), None)

\* a faulty Target::hash, which feeds the text of the file as it reads it
Target_hash_FeedsText(slf, f, h) ==
    IF slf.variant = "Custom"
    THEN LET r == read(f, slf.json) IN
         IF r.tag = "Err" THEN HashOut(r, h, Some(r))
         ELSE LET v == from_str(r.val) IN
              IF v.tag = "Err"
              THEN HashOut(Err(Display(slf.json) \o <<" is not valid JSON">>),
                           str_hash(r.val, h), Some(r))
              ELSE HashOut(Ok(<<>>), str_hash(to_string(v.val), h), Some(r))
    ELSE HashOut(Ok(<<>>), h, None)

\* Target::hash: the value returned, the hasher afterwards, and what was read
Target_hash(slf, f, h) ==
    IF slf.variant = "Custom"
    THEN LET r == read(f, slf.json) IN
         IF r.tag = "Err" THEN HashOut(r, h, Some(r))
         ELSE LET v == from_str(r.val) IN
              IF v.tag = "Err"
              THEN HashOut(Err(Display(slf.json) \o <<" is not valid JSON">>), h, Some(r))
              ELSE HashOut(Ok(<<>>), str_hash(to_string(v.val), h), Some(r))
    ELSE HashOut(Ok(<<>>), h, None)

----------------------------------------------------------------------------
(* The environment of target resolution *)

\* the names "<triple>.json"
SpecNames == { t \o <<".">> \o Json : t \in Triples \ { <<>>, <<".", ".">> } }

\* where spec files (or directories of that name) may appear
SpecPaths ==
    { Join(RootPath, n) : n \in SpecNames } \cup
    { Join(SearchDir, n) : n \in SpecNames } \cup
    { << RootPath[1] \o <<".">> \o Json >> }

RECURSIVE Unlines(_)
Unlines(ls) == IF ls = <<>> THEN <<>> ELSE Head(ls) \o <<"\n">> \o Unlines(Tail(ls))

\* what `rustc --print target-list` may print: one triple a line, a line may be blank
TargetLists == UNION { [1..k -> Triples] : k \in 0..MaxTargets }
RustcRuns ==
    { [ok |-> TRUE, targets |-> Unlines(ls), sysroot |-> <<>>] : ls \in TargetLists } \cup
    { [ok |-> FALSE, targets |-> <<>>, sysroot |-> <<>>] }

NoCall ==
    /\ op' = "env"
    /\ triple' = <<>>
    /\ target' = Idle
    /\ srcV' = Idle
    /\ self' = None /\ before' = <<>> /\ hasher' = <<>> /\ readV' = None
    /\ hashV' = Idle /\ prev' = None

\* a file or a directory appears
Create(p, e) ==
    /\ p \notin DOMAIN fs
    /\ Cardinality(DOMAIN fs) < MaxEntries
    /\ fs' = (p :> e) @@ fs
    /\ NoCall
    /\ UNCHANGED <<env, rustcOut, sysrootV>>

\* a file or a directory is removed
Remove(p) ==
    /\ p \in DOMAIN fs
    /\ fs' = [q \in DOMAIN fs \ {p} |-> fs[q]]
    /\ NoCall
    /\ UNCHANGED <<env, rustcOut, sysrootV>>

\* RUST_TARGET_PATH is set or unset
SetEnv(e) ==
    /\ env' = e /\ env' # env
    /\ NoCall
    /\ UNCHANGED <<fs, rustcOut, sysrootV>>

\* another toolchain is installed
SetRustc(rc) ==
    /\ rustcOut' = rc /\ rustcOut' # rustcOut
    /\ NoCall
    /\ UNCHANGED <<fs, env, sysrootV>>

\* a call of Target::new
TargetNew(t) ==
    /\ op' = "Target::new"
    /\ triple' = t
    /\ target' = Target_new(t, fs, env, rustcOut)
    /\ UNCHANGED <<fs, env, rustcOut, sysrootV, srcV,
                   self, before, hasher, readV, hashV, prev>>

----------------------------------------------------------------------------
(* The environment of the source lookup *)

\* the sysroots an installed rustc may report
Sysroots == { << <<"s">> >>, << <<"t">> >> }

ManifestPaths ==
    { s \o RustSrc \o m : s \in Sysroots, m \in {LegacyManifest, ModernManifest} }

\* what `rustc --print sysroot` may print: the path on a line, possibly padded
SysrootRuns ==
    { [ok |-> TRUE, targets |-> <<>>, sysroot |-> pad \o Display(s) \o <<"\n">>] :
        s \in Sysroots, pad \in { <<>>, <<" ">> } } \cup
    { [ok |-> FALSE, targets |-> <<>>, sysroot |-> <<>>] }

\* a call of rustc::sysroot
CallSysroot ==
    /\ op' = "rustc::sysroot"
    /\ sysrootV' = LET r == sysroot(rustcOut) IN
                   IF r.tag = "Ok" THEN Some(r.val) ELSE None
    /\ srcV' = Idle
    /\ UNCHANGED <<fs, env, rustcOut, triple, target,
                   self, before, hasher, readV, hashV, prev>>

\* a call of Sysroot::src on the Sysroot held
CallSrc ==
    /\ sysrootV # None
    /\ op' = "Sysroot::src"
    /\ srcV' = Sysroot_src(fs, sysrootV[1])
    /\ UNCHANGED <<fs, env, rustcOut, triple, target, sysrootV,
                   self, before, hasher, readV, hashV, prev>>

----------------------------------------------------------------------------
(* The environment of the target hash *)

\* the spec files of the Custom targets that are hashed
HashSpecPaths == { Join(RootPath, <<"a", ".", "json">>), Join(SearchDir, <<"a", ".", "json">>) }

\* the targets that are hashed
HashTargets ==
    { Builtin(t) : t \in { <<"a">>, <<"b">> } } \cup
    { Custom(p, <<"a">>) : p \in HashSpecPaths }

\* what a spec file may hold
SpecTexts ==
    { <<"{", "a", ":", "1", ",", "b", ":", "2", "}">>,
      <<"{", "b", ":", "2", ",", "a", ":", "1", "}">>,
      <<"{", "\n", " ", "a", ":", " ", "1", ",", "\n", " ", "b", ":", " ", "2", "\n", "}", "\n">>,
      <<"{", "a", ":", "2", ",", "b", ":", "1", "}">>,
      <<"{", "a", ":", "2", ",", "a", ":", "1", "}">>,
      <<"{", "a", ":", "1", "}">>,
      <<"{", "b", ":", "{", "b", ":", "2", ",", "a", ":", "1", "}", ",", "a", ":", "1", "}">>,
      <<"{", "a", ":", "1", ",", "b", ":", "{", "a", ":", "1", ",", "b", ":", "2", "}", "}">>,
      <<"{", "}">>,
      <<"1">>,
      <<>>,
      <<"{", "a", ":", "1">>,
      <<"{", "a", ":", "1", ",", "}">>,
      <<"1", "}">> }

\* the states the caller's hasher may be in: new, or fed something already
Hashers == { <<>>, <<"x">> }

\* a call of Target::hash on the target slf with the hasher in the state h
CallHash(slf, h) ==
    /\ op' = "Target::hash"
    /\ self' = Some(slf)
    /\ before' = h
    /\ LET o == Target_hash(slf, fs, h) IN
        /\ hasher' = o.hasher
        /\ hashV' = o.res
        /\ readV' = o.read
    /\ prev' = IF self = None THEN None
               ELSE Some([self |-> self[1], before |-> before, hasher |-> hasher,
                          readV |-> readV, hashV |-> hashV])
    /\ UNCHANGED <<fs, env, rustcOut, triple, target, sysrootV, srcV>>

Init ==
    /\ fs = << >>
    /\ env = None
    /\ rustcOut = [ok |-> TRUE, targets |-> <<>>, sysroot |-> <<>>]
    /\ op = "idle"
    /\ triple = <<>>
    /\ target = Idle
    /\ sysrootV = None
    /\ srcV = Idle
    /\ self = None /\ before = <<>> /\ hasher = <<>> /\ readV = None
    /\ hashV = Idle /\ prev = None

Next ==
    \/ \E p \in SpecPaths, e \in {File(<<>>), Dir} : Create(p, e)
    \/ \E p \in SpecPaths : Remove(p)
    \/ \E e \in {None, Some(Display(SearchDir))} : SetEnv(e)
    \/ \E rc \in RustcRuns : SetRustc(rc)
    \/ \E t \in Triples : TargetNew(t)

Spec == Init /\ [][Next]_vars

NextSrc ==
    \/ \E p \in ManifestPaths, e \in {File(<<>>), Dir} : Create(p, e)
    \/ \E p \in ManifestPaths : Remove(p)
    \/ \E rc \in SysrootRuns : SetRustc(rc)
    \/ CallSysroot
    \/ CallSrc

SpecSrc == Init /\ [][NextSrc]_vars

NextHash ==
    \/ \E p \in HashSpecPaths, e \in {File(t) : t \in SpecTexts} \cup {Dir} : Create(p, e)
    \/ \E p \in HashSpecPaths : Remove(p)
    \/ \E slf \in HashTargets, h \in Hashers : CallHash(slf, h)

SpecHash == Init /\ [][NextHash]_vars

----------------------------------------------------------------------------
(* Target resolution: what Target::new returned, against the environment it ran in *)

NewReturned == op = "Target::new"

\* rustc printed the list and the requested triple is one of its lines
Listed ==
    /\ rustcOut.ok
    /\ \E i \in 1..Len(lines(rustcOut.targets)) : lines(rustcOut.targets)[i] = triple
NotListed ==
    /\ rustcOut.ok
    /\ \A i \in 1..Len(lines(rustcOut.targets)) : lines(rustcOut.targets)[i] # triple

\* <project root>/<triple>.json and <search directory>/<triple>.json
RootSpec == Append(RootPath, triple \o <<".", "json">>)
SearchSpec == Append(SearchDir, triple \o <<".", "json">>)

Present(p) == p \in DOMAIN fs
Dotted == \E i \in 1..Len(triple) : triple[i] = "." /\ triple # <<".", ".">>

\* C1: a requested triple that is a line of the target list resolves to Builtin of
\* that triple, whatever spec files exist and whether or not RUST_TARGET_PATH is set
C1_BuiltinPrecedence ==
    (NewReturned /\ Listed) => target = Ok(Some(Builtin(triple)))

C1_Witness ==
    /\ NewReturned /\ Listed
    /\ Present(RootSpec) /\ Present(SearchSpec) /\ env # None
    /\ target = Ok(Some(Builtin(triple)))

\* C2: a triple that is not listed and has <project root>/<triple>.json resolves to
\* Custom of that file, also when the search directory holds a file of that name
C2_RootPrecedence ==
    (NewReturned /\ NotListed /\ Present(RootSpec))
        => target = Ok(Some(Custom(RootSpec, triple)))

\* C3: a triple that is not listed and has no <triple>.json in the project root nor
\* in the search directory (or no search directory) resolves to Ok(None)
C3_Unknown ==
    (NewReturned /\ NotListed /\ ~Present(RootSpec)
        /\ (env = None \/ ~Present(SearchSpec)))
        => target = Ok(None)

\* C4: a triple, dotted or not, that is not listed and has no spec file in the
\* project root resolves to Custom of <search directory>/<triple>.json when
\* RUST_TARGET_PATH is set and that file exists; with RUST_TARGET_PATH unset no
\* file of the search directory is returned
C4_SearchFallback ==
    /\ (NewReturned /\ NotListed /\ ~Present(RootSpec)
            /\ env # None /\ Present(SearchSpec))
        => target = Ok(Some(Custom(SearchSpec, triple)))
    /\ (NewReturned /\ env = None /\ target.tag = "Ok" /\ target.val # None)
        => ~IsPrefix(SearchDir, target.val[1].json)

\* C10: a Target that Target::new returns has a non-empty triple, the requested
\* one, and a Custom one has a spec path that names a file, not a directory, and
\* whose file stem is the triple
C10_TargetInvariant ==
    (NewReturned /\ target.tag = "Ok" /\ target.val # None) =>
        LET tg == target.val[1] IN
        /\ tg.triple # <<>>
        /\ tg.triple = triple
        /\ tg.variant = "Custom" =>
            /\ is_file(fs, tg.json)
            /\ FileStem(tg.json) = Some(triple)

----------------------------------------------------------------------------
(* The source lookup: what Sysroot::src returned *)

SrcReturned == op = "Sysroot::src" /\ sysrootV # None

Legacy == sysrootV[1] \o RustSrc \o LegacyManifest
Modern == sysrootV[1] \o RustSrc \o ModernManifest
FileAt(p) == p \in DOMAIN fs /\ fs[p].kind = "file"

\* C7: with both manifests files Sysroot::src returns <sysroot>/lib/rustlib/src/rust/src,
\* and it returns .../rust/library exactly when only the modern manifest is a file
C7_LegacyFirst ==
    SrcReturned =>
        /\ (FileAt(Legacy) /\ FileAt(Modern))
            => srcV = Ok(sysrootV[1] \o RustSrc \o << <<"src">> >>)
        /\ srcV = Ok(sysrootV[1] \o RustSrc \o << <<"library">> >>)
            <=> (~FileAt(Legacy) /\ FileAt(Modern))

C7_Witness ==
    /\ SrcReturned /\ FileAt(Legacy) /\ FileAt(Modern)
    /\ srcV = Ok(sysrootV[1] \o RustSrc \o << <<"src">> >>)

\* C8: Sysroot::src fails, with the message that names rust-src and how to install
\* it, exactly when neither manifest is a file; otherwise the path it returns holds
\* the manifest of the layout it matched
C8_MissingIffNeither ==
    SrcReturned =>
        /\ srcV.tag = "Err" <=> (~FileAt(Legacy) /\ ~FileAt(Modern))
        /\ srcV.tag = "Err" =>
            /\ \E i \in 1..Len(srcV.msg) : srcV.msg[i] = "rust-src"
            /\ \E i \in 1..Len(srcV.msg) : srcV.msg[i] = "rustup component add rust-src"
        /\ srcV.tag = "Ok" =>
            \/ /\ Last(srcV.val) = <<"src">>
               /\ FileAt(srcV.val \o << <<"libstd">>, <<"Cargo.toml">> >>)
            \/ /\ Last(srcV.val) = <<"library">>
               /\ FileAt(srcV.val \o << <<"std">>, <<"Cargo.toml">> >>)

C8_Witness ==
    /\ SrcReturned /\ srcV.tag = "Err"
    /\ Legacy \in DOMAIN fs /\ fs[Legacy].kind = "dir" /\ ~Present(Modern)

----------------------------------------------------------------------------
(* The target hash: what Target::hash did to the hasher *)

HashReturned == op = "Target::hash" /\ self # None

\* the call read the spec file and its text is a JSON value
Parsed(rd) == rd # None /\ rd[1].tag = "Ok" /\ from_str(rd[1].val).tag = "Ok"
ValueOf(rd) == from_str(rd[1].val).val

\* two values are structurally equal: the same number, or objects with the same
\* keys and structurally equal values at each key
RECURSIVE SameValue(_, _)
SameValue(v, w) ==
    /\ v.t = w.t
    /\ v.t = "num" => v.n = w.n
    /\ v.t = "obj" =>
        /\ {v.m[i].k : i \in 1..Len(v.m)} = {w.m[j].k : j \in 1..Len(w.m)}
        /\ Len(v.m) = Len(w.m)
        /\ \A i \in 1..Len(v.m), j \in 1..Len(w.m) :
            v.m[i].k = w.m[j].k => SameValue(v.m[i].v, w.m[j].v)

\* C5: two Custom targets whose spec files parse to structurally equal values leave
\* two hashers that started in the same state in the same state
C5_HashStable ==
    (HashReturned /\ prev # None
        /\ self[1].variant = "Custom" /\ prev[1].self.variant = "Custom"
        /\ Parsed(readV) /\ Parsed(prev[1].readV)
        /\ SameValue(ValueOf(readV), ValueOf(prev[1].readV))
        /\ before = prev[1].before)
        => hasher = prev[1].hasher

C5_Witness ==
    /\ HashReturned /\ prev # None
    /\ self[1].variant = "Custom" /\ prev[1].self.variant = "Custom"
    /\ self[1].json # prev[1].self.json
    /\ Parsed(readV) /\ Parsed(prev[1].readV)
    /\ SelectSeq(readV[1].val, LAMBDA c : c \notin JsonSpace)
         # SelectSeq(prev[1].readV[1].val, LAMBDA c : c \notin JsonSpace)
    /\ SameValue(ValueOf(readV), ValueOf(prev[1].readV))
    /\ before = prev[1].before
    /\ hasher = prev[1].hasher /\ hasher # before

\* C6: Target::hash of a Builtin target returns Ok, reads no file and leaves the
\* hasher as it was, so two Builtin targets give the same contribution
C6_BuiltinHashEmpty ==
    (HashReturned /\ self[1].variant = "Builtin") =>
        /\ hashV = Ok(<<>>)
        /\ readV = None
        /\ hasher = before
        /\ (prev # None /\ prev[1].self.variant = "Builtin" /\ prev[1].before = before)
            => prev[1].hasher = hasher

C6_Witness ==
    /\ HashReturned /\ self[1].variant = "Builtin"
    /\ prev # None /\ prev[1].self.variant = "Builtin"
    /\ prev[1].self.triple # self[1].triple
    /\ prev[1].before = before /\ before # <<>>
    /\ Present(Append(RootPath, self[1].triple \o <<".", "json">>))
    /\ hasher = before /\ hashV = Ok(<<>>)

\* s occurs in t as a run of consecutive tokens
Infix(s, t) == \E i \in 0..(Len(t) - Len(s)) : SubSeq(t, i + 1, i + Len(s)) = s

\* C9: Target::hash of a Custom target whose spec file is not JSON returns the error
\* whose message holds the path of the file, and then, as when the file cannot be
\* read, the hasher is left as it was
C9_InvalidJson ==
    (HashReturned /\ self[1].variant = "Custom") =>
        /\ (readV # None /\ readV[1].tag = "Ok" /\ from_str(readV[1].val).tag = "Err") =>
            /\ hashV.tag = "Err"
            /\ Infix(Display(self[1].json), hashV.msg)
            /\ Last(hashV.msg) = " is not valid JSON"
            /\ hasher = before
        /\ (readV # None /\ readV[1].tag = "Err") =>
            /\ hashV.tag = "Err"
            /\ hasher = before

C9_Witness ==
    /\ HashReturned /\ self[1].variant = "Custom"
    /\ readV # None /\ readV[1].tag = "Ok" /\ readV[1].val # <<>>
    /\ from_str(readV[1].val).tag = "Err"
    /\ hashV.tag = "Err" /\ before # <<>> /\ hasher = before

====
